---- MODULE Spec2Model ----
(***************************************************************************)
(* Model of simfin_tools/cli.py: the cell formatters, the Markdown table   *)
(* renderer, the CSV writer, the command line parser, the company search,  *)
(* the per-statement pipeline steps and main().                            *)
(*                                                                         *)
(* Numbers are fixed point: a float cell Num(m) holds m/1000.  Dates are   *)
(* month starts of 2023: Date(d) is 2023-d-01.  An exception raised by a   *)
(* function is the field `raised` of the record it returns.  A string     *)
(* holding newlines is the sequence of its lines.  The provider's tables   *)
(* and its errors are the inputs; writing a file always succeeds.  The     *)
(* text of the exception that a warning ends with is left out.             *)
(***************************************************************************)
EXTENDS Integers, Sequences, FiniteSets, TLC

\* ------------------------------------------------------------------ bounds
MaxDate == 5
MaxRows == 2
MaxPlRows == 1
MaxStatementRows == 3

\* ------------------------------------------------------------- cell values
Num(m)   == [k |-> "num",  n |-> m, s |-> ""]
IntV(i)  == [k |-> "int",  n |-> i, s |-> ""]
NaN      == [k |-> "nan",  n |-> 0, s |-> ""]
Inf(sgn) == [k |-> "inf",  n |-> sgn, s |-> ""]
Text(t)  == [k |-> "text", n |-> 0, s |-> t]
Date(d)  == [k |-> "date", n |-> d, s |-> ""]

Dates == 1 .. MaxDate

Range(q) == {q[i] : i \in DOMAIN q}

Abs(i) == IF i < 0 THEN -i ELSE i

Pad2(i) == IF i < 10 THEN "0" \o ToString(i) ELSE ToString(i)

Pad3(i) == IF i < 10 THEN "00" \o ToString(i)
           ELSE IF i < 100 THEN "0" \o ToString(i) ELSE ToString(i)

RECURSIVE Join(_, _)
Join(q, sep) == IF q = <<>> THEN ""
                ELSE IF Len(q) = 1 THEN q[1]
                ELSE q[1] \o sep \o Join(Tail(q), sep)

\* strftime('%Y-%m-%d') of the timestamp of day d
DateStr(d) == "2023-" \o Pad2(d) \o "-01"

\* str(Timestamp)
TimestampStr(d) == DateStr(d) \o " 00:00:00"

\* repr of a Python float m/1000: shortest decimal, at least one fraction digit
FloatStr(m) ==
    LET a == Abs(m)
        f == a % 1000
        frac == IF f % 100 = 0 THEN ToString(f \div 100)
                ELSE IF f % 10 = 0 THEN Pad2(f \div 10) ELSE Pad3(f)
    IN  (IF m < 0 THEN "-" ELSE "") \o ToString(a \div 1000) \o "." \o frac

\* str(value)
Str(v) == CASE v.k = "num"  -> FloatStr(v.n)
            [] v.k = "int"  -> ToString(v.n)
            [] v.k = "nan"  -> "nan"
            [] v.k = "inf"  -> IF v.n < 0 THEN "-inf" ELSE "inf"
            [] v.k = "text" -> v.s
            [] v.k = "date" -> TimestampStr(v.n)

\* A bug the formatters could have: a missing value not recognised.
IsNaNever(v) == FALSE

\* pd.isna(value)
IsNa(v) == v.k = "nan"

\* f"{num:,}"
RECURSIVE Grouped(_)
Grouped(i) == IF i < 1000 THEN ToString(i)
              ELSE Grouped(i \div 1000) \o "," \o Pad3(i % 1000)

Thousands(i) == (IF i < 0 THEN "-" ELSE "") \o Grouped(Abs(i))

\* int(float(value)) of a finite number: truncation toward zero
Trunc(v) == IF v.k = "int" THEN v.n
            ELSE IF v.n >= 0 THEN v.n \div 1000 ELSE -((-v.n) \div 1000)

\* f"{x:.2f}" of x = h/100
Fixed2(h) == (IF h < 0 THEN "-" ELSE "") \o ToString(Abs(h) \div 100)
             \o "." \o Pad2(Abs(h) % 100)

\* value * 100, in hundredths
Times100(v) == IF v.k = "int" THEN v.n * 10000 ELSE v.n * 10

Returned(str) == [raised |-> FALSE, s |-> str]
Raised(exc)   == [raised |-> TRUE, s |-> exc]

format_number(value) ==
    IF IsNa(value) THEN Returned("")
    ELSE IF value.k \in {"num", "int"} THEN Returned(Thousands(Trunc(value)))
    ELSE IF value.k = "inf" THEN Raised("OverflowError")   \* int(float('inf'))
    ELSE Returned(Str(value))                              \* ValueError, TypeError

format_price(value) ==
    IF IsNa(value) THEN Returned("")
    ELSE IF value.k \in {"num", "int"} THEN Returned(Fixed2(Times100(value)))
    ELSE IF value.k = "inf" THEN Returned(Str(value))      \* f"{inf:.2f}"
    ELSE Returned(Str(value))                              \* ValueError, TypeError

\* pd.to_datetime of a text: the day it names, 0 when it names none
ParseDate(t) == IF \E d \in Dates : t \in {DateStr(d), TimestampStr(d)}
                THEN CHOOSE d \in Dates : t \in {DateStr(d), TimestampStr(d)}
                ELSE 0

format_date(value) ==
    IF IsNa(value) THEN Returned("")
    ELSE IF value.k = "date" THEN Returned(DateStr(value.n))
    ELSE IF value.k \in {"num", "int"}                     \* ns since the epoch
         THEN Returned(IF value.n < 0 THEN "1969-12-31" ELSE "1970-01-01")
    ELSE IF value.k = "text" /\ ParseDate(value.s) # 0
         THEN Returned(DateStr(ParseDate(value.s)))
    ELSE Returned(Str(value))                              \* ValueError, TypeError

\* ------------------------------------------------------------------ tables
\* A DataFrame: the index level names, the column names, and the rows in
\* their order, each row its index values and its column values.
None == "None"

DataFrame(names, columns, rows) ==
    [names |-> names, columns |-> columns, rows |-> rows]

IsMultiIndex(df) == Len(df.names) >= 2

IndexOf(q, x) == CHOOSE i \in DOMAIN q : q[i] = x

Positions(q) == [i \in 1 .. Len(q) |-> i]

Pick(q, pos) == [i \in 1 .. Len(pos) |-> q[pos[i]]]

HiddenFields == {"Ticker", "SimFinId"}

LeftAligned == {"Report Date", "Date", "Fiscal Year", "Fiscal Period",
                "Currency", "Publish Date", "Restated Date"}

\* the heading line of a section
md_heading(df, title) ==
    IF "SimFinId" \in Range(df.names)
    THEN IF df.rows = <<>>
         THEN Raised("IndexError")               \* get_level_values(...)[0]
         ELSE Returned("## " \o title \o " (SimFinId: "
                       \o Str(df.rows[1].idx[IndexOf(df.names, "SimFinId")]) \o ")")
    ELSE Returned("## " \o title)

\* df_copy: the table without the hidden identity fields
md_df_copy(df) ==
    IF ~IsMultiIndex(df) THEN [raised |-> FALSE, df |-> df]
    ELSE IF Range(df.names) \cap Range(df.columns) # {}
    THEN [raised |-> TRUE, df |-> df]            \* reset_index: cannot insert
    ELSE
    LET index_names == SelectSeq(df.names, LAMBDA name : name \notin HiddenFields)
        flat == df.names \o df.columns
        kept == SelectSeq(Positions(flat), LAMBDA i : flat[i] \notin HiddenFields)
        ipos == SelectSeq(kept, LAMBDA i : flat[i] \in Range(index_names))
        cpos == SelectSeq(kept, LAMBDA i : flat[i] \notin Range(index_names))
        cell(r) == r.idx \o r.vals
    IN  IF index_names # <<>>
        THEN [raised |-> FALSE,
              df |-> DataFrame(index_names, Pick(flat, cpos),
                        [j \in 1 .. Len(df.rows) |->
                            [idx |-> Pick(cell(df.rows[j]), ipos),
                             vals |-> Pick(cell(df.rows[j]), cpos)]])]
        ELSE [raised |-> FALSE,                  \* the RangeIndex of reset_index
              df |-> DataFrame(<<None>>, Pick(flat, kept),
                        [j \in 1 .. Len(df.rows) |->
                            [idx |-> <<IntV(j - 1)>>,
                             vals |-> Pick(cell(df.rows[j]), kept)]])]

md_headers(df_copy) ==
    SelectSeq(df_copy.names, LAMBDA h : h # None) \o df_copy.columns

\* A bug the alignment could have: decided by the place of the header, the
\* key fields left and the data columns right.
md_alignments_by_place(headers) ==
    [i \in 1 .. Len(headers) |-> IF i = 1 THEN ":-" ELSE "-:"]

md_alignments(headers) ==
    [i \in 1 .. Len(headers) |-> IF headers[i] \in LeftAligned THEN ":-" ELSE "-:"]

\* formatted_index_values of one row
md_index_values(df_copy, row) ==
    [i \in 1 .. Len(row.idx) |->
        IF df_copy.names[i] \in {"Report Date", "Date"}
        THEN format_date(Text(Str(row.idx[i])))
        ELSE Returned(Str(row.idx[i]))]

\* formatted_values of one row
md_values(df_copy, row, is_price_data) ==
    [i \in 1 .. Len(df_copy.columns) |->
        LET col == df_copy.columns[i]
        IN  IF col \in {"Report Date", "Date", "Publish Date", "Restated Date"}
            THEN format_date(row.vals[i])
            ELSE IF is_price_data /\ col \in {"Close", "Adj. Close"}
            THEN format_price(row.vals[i])
            ELSE format_number(row.vals[i])]

md_row(df_copy, row, is_price_data) ==
    md_index_values(df_copy, row) \o md_values(df_copy, row, is_price_data)

TableLine(cells) == "| " \o Join(cells, " | ") \o " |"

NoTable == [raised |-> TRUE, md |-> <<>>, headers |-> <<>>,
            alignments |-> <<>>, rows |-> <<>>]

dataframe_to_markdown(df, title, is_price_data) ==
    LET heading == md_heading(df, title)
        copy == md_df_copy(df)
        df_copy == copy.df
        headers == md_headers(df_copy)
        alignments == md_alignments(headers)
        cells == [j \in 1 .. Len(df_copy.rows) |->
                    md_row(df_copy, df_copy.rows[j], is_price_data)]
        rows == [j \in 1 .. Len(cells) |->
                    [i \in 1 .. Len(cells[j]) |-> cells[j][i].s]]
    IN  IF \/ heading.raised
           \/ copy.raised
           \/ \E j \in DOMAIN cells : \E i \in DOMAIN cells[j] : cells[j][i].raised
        THEN NoTable
        ELSE [raised |-> FALSE,
              md |-> <<heading.s, "", TableLine(headers), TableLine(alignments)>>
                     \o [j \in 1 .. Len(rows) |-> TableLine(rows[j])]
                     \o <<"">>,
              headers |-> headers,
              alignments |-> alignments,
              rows |-> rows]

\* ------------------------------------------------------- frame operations
UpperCase == "ABCDEFGHIJKLMNOPQRSTUVWXYZ"

LowerCase == "abcdefghijklmnopqrstuvwxyz"

\* str.lower()
RECURSIVE Lower(_)
Lower(str) ==
    IF Len(str) = 0 THEN str
    ELSE LET c == SubSeq(str, 1, 1)
             at == {i \in 1 .. Len(UpperCase) : SubSeq(UpperCase, i, i) = c}
         IN  (IF at = {} THEN c ELSE LET i == CHOOSE i \in at : TRUE
                                     IN  SubSeq(LowerCase, i, i))
             \o Lower(SubSeq(str, 2, Len(str)))

\* 'Shares' in col
Contains(str, sub) ==
    \E i \in 1 .. (Len(str) - Len(sub) + 1) : SubSeq(str, i, i + Len(sub) - 1) = sub

\* str.strip()
RECURSIVE Strip(_)
Strip(str) == IF Len(str) = 0 THEN str
              ELSE IF SubSeq(str, 1, 1) = " " THEN Strip(SubSeq(str, 2, Len(str)))
              ELSE IF SubSeq(str, Len(str), Len(str)) = " "
                   THEN Strip(SubSeq(str, 1, Len(str) - 1))
              ELSE str

StripAll(q) == [i \in 1 .. Len(q) |-> Strip(q[i])]

\* round(2) of m/1000, half to even
Round2(m) ==
    LET a == Abs(m)
        q == a \div 10
        r == a % 10
        up == r > 5 \/ (r = 5 /\ q % 2 = 1)
        rounded == (IF up THEN q + 1 ELSE q) * 10
    IN  IF m < 0 THEN -rounded ELSE rounded

\* price_data * 100
Scale(m) == m * 100

\* an elementwise operation on the numeric cells of a frame
MapCells(df, op) ==
    [df EXCEPT !.rows = [j \in 1 .. Len(df.rows) |->
        [df.rows[j] EXCEPT !.vals = [i \in 1 .. Len(df.rows[j].vals) |->
            LET v == df.rows[j].vals[i]
            IN  IF v.k # "num" THEN v
                ELSE IF op = "round" THEN Num(Round2(v.n)) ELSE Num(Scale(v.n))]]]]

\* df.round(2)
RoundFrame(df) == MapCells(df, "round")

\* price_data * 100
ScaleFrame(df) == MapCells(df, "scale")

\* df.columns = [col.strip() ...]; df.index.names = [name.strip() ...]
StripFrame(df) == [df EXCEPT !.columns = StripAll(df.columns),
                             !.names = StripAll(df.names)]

\* df[cols], by position
SelectColumns(df, pos) ==
    [df EXCEPT !.columns = Pick(df.columns, pos),
               !.rows = [j \in 1 .. Len(df.rows) |->
                            [df.rows[j] EXCEPT !.vals = Pick(df.rows[j].vals, pos)]]]

Level(df, row, name) == row.idx[IndexOf(df.names, name)]

\* A bug the filter could have: the ticker compared without regard to case.
FilterTickerAnyCase(df, t) ==
    [df EXCEPT !.rows = SelectSeq(df.rows, LAMBDA row :
                            Lower(Level(df, row, "Ticker").s) = Lower(t))]

\* df[df.index.get_level_values('Ticker') == ticker]
FilterTicker(df, t) ==
    [df EXCEPT !.rows = SelectSeq(df.rows, LAMBDA row : Level(df, row, "Ticker") = Text(t))]

\* Index.unique(): the distinct values in order of first appearance
RECURSIVE Unique(_)
Unique(q) == IF q = <<>> THEN <<>>
             ELSE LET front == Unique(SubSeq(q, 1, Len(q) - 1))
                      last == q[Len(q)]
                  IN  IF last \in Range(front) THEN front ELSE Append(front, last)

\* doublequote=True: every quote character of a field written twice
RECURSIVE DoubleQuotes(_)
DoubleQuotes(str) ==
    IF Len(str) = 0 THEN str
    ELSE (IF SubSeq(str, 1, 1) = "\"" THEN "\"\"" ELSE SubSeq(str, 1, 1))
         \o DoubleQuotes(SubSeq(str, 2, Len(str)))

\* a field the csv writer takes for non-numeric: quoted
Quoted(str) == "\"" \o DoubleQuotes(str) \o "\""

\* float_format='%.2f' of m/1000
Percent2f(m) ==
    LET h == Round2(m) \div 10
    IN  IF m < 0 /\ h = 0 THEN "-0.00" ELSE Fixed2(h)

\* One field of to_csv under quoting=csv.QUOTE_NONNUMERIC.  A float is turned
\* into text by float_format before the writer sees it, and so is quoted; a
\* missing value is na_rep, the empty text; an integer stays a number.
CsvField(v) ==
    CASE v.k = "int"  -> ToString(v.n)
      [] v.k = "num"  -> Quoted(Percent2f(v.n))
      [] v.k = "nan"  -> Quoted("")
      [] v.k = "inf"  -> Quoted(IF v.n < 0 THEN "-inf" ELSE "inf")
      [] v.k = "text" -> Quoted(v.s)
      [] v.k = "date" -> Quoted(DateStr(v.n))

CsvHeader(df) ==
    Join([i \in 1 .. Len(df.names) |-> Quoted(IF df.names[i] = None THEN "" ELSE df.names[i])]
         \o [i \in 1 .. Len(df.columns) |-> Quoted(df.columns[i])], ",")

CsvRow(row) ==
    Join([i \in 1 .. Len(row.idx) |-> CsvField(row.idx[i])]
         \o [i \in 1 .. Len(row.vals) |-> CsvField(row.vals[i])], ",")

\* df.to_csv(sep=',', index=True, ...): the header line and one line per row
to_csv(df) == <<CsvHeader(df)>> \o [j \in 1 .. Len(df.rows) |-> CsvRow(df.rows[j])]

\* the file df.to_csv(filename, ...) leaves
save_dataframe(df, filename) == [name |-> filename, df |-> df, lines |-> to_csv(df)]

\* ------------------------------------------------------ the command line
\* parser.parse_args() on the words after the program name.  The parser
\* exits with status 2 on a usage error; otherwise it returns the namespace.
IsOption(word) == Len(word) > 0 /\ SubSeq(word, 1, 1) = "-"

UsageError == [exit |-> 2, md |-> FALSE, command |-> None, ticker |-> None,
               search_term |-> None]

Namespace(md_, command_, ticker_, search_term_) ==
    [exit |-> -1, md |-> md_, command |-> command_, ticker |-> ticker_,
     search_term |-> search_term_]

\* the words the top-level parser takes for itself: the --md before the command
RECURSIVE LeadingOptions(_)
LeadingOptions(argv) ==
    IF argv # <<>> /\ Head(argv) = "--md" THEN 1 + LeadingOptions(Tail(argv)) ELSE 0

\* The sub-parser of a command gets every word after the command.  It knows
\* its positional argument and no option: --md is defined on the top-level
\* parser alone, and a word a sub-parser does not know is an error.
subparser_parse(md_, command_, args) ==
    IF \E i \in DOMAIN args : IsOption(args[i]) THEN UsageError  \* unrecognized arguments
    ELSE IF command_ = "help"
         THEN IF args = <<>> THEN Namespace(md_, command_, None, None) ELSE UsageError
    ELSE IF command_ = "list"
         THEN IF args = <<>> THEN Namespace(md_, command_, None, "")
              ELSE IF Len(args) = 1 THEN Namespace(md_, command_, None, args[1])
              ELSE UsageError
    ELSE IF Len(args) = 1 THEN Namespace(md_, command_, args[1], None)
         ELSE UsageError                        \* ticker required; one ticker

parse_args(argv) ==
    LET n == LeadingOptions(argv)
        rest == SubSeq(argv, n + 1, Len(argv))
    IN  IF rest = <<>> THEN Namespace(n > 0, None, None, None)
        ELSE IF Head(rest) \notin {"help", "list", "fy", "q", "ttm"}
        THEN UsageError                         \* invalid choice
        ELSE subparser_parse(n > 0, Head(rest), Tail(rest))

\* ------------------------------------------------------ the company search
\* Regular expressions over literal characters, ".", "(" and ")", and the
\* pattern "*".  The nesting depth of the parentheses after each prefix, -1
\* once a ")" has no "(" before it.
RECURSIVE ParenDepth(_, _)
ParenDepth(pat, depth) ==
    IF depth < 0 \/ Len(pat) = 0 THEN depth
    ELSE LET c == SubSeq(pat, 1, 1)
         IN  ParenDepth(SubSeq(pat, 2, Len(pat)),
                        IF c = "(" THEN depth + 1 ELSE IF c = ")" THEN depth - 1 ELSE depth)

\* re.compile(pat) raises re.error: missing ), unbalanced parenthesis,
\* nothing to repeat
re_error(pat) ==
    \/ ParenDepth(pat, 0) # 0
    \/ Len(pat) > 0 /\ SubSeq(pat, 1, 1) = "*"

\* the pattern without its groups: a group without a quantifier or an
\* alternative matches what its content matches
RECURSIVE Ungrouped(_)
Ungrouped(pat) ==
    IF Len(pat) = 0 THEN pat
    ELSE (IF SubSeq(pat, 1, 1) \in {"(", ")"} THEN "" ELSE SubSeq(pat, 1, 1))
         \o Ungrouped(SubSeq(pat, 2, Len(pat)))

\* re.search(pat, str) finds a match, for a pattern that compiles
re_search(pat, str) ==
    LET p == Ungrouped(pat)
    IN  \E i \in 1 .. (Len(str) - Len(p) + 1) :
            \A k \in 1 .. Len(p) :
                SubSeq(p, k, k) = "." \/ SubSeq(p, k, k) = SubSeq(str, i + k - 1, i + k - 1)

\* Series.str.lower().str.contains(pat, na=False) of one value
str_contains(value, pat) ==
    IF IsNa(value) THEN FALSE ELSE re_search(pat, Lower(value.s))

\* companies['Company Name'].str: the accessor exists for a column of texts;
\* a column read with no text in it is a float column and has none
HasStrAccessor(companies) ==
    companies = <<>> \/ \E j \in DOMAIN companies : ~IsNa(companies[j].name)

\* main() for `list [search_term]`: what it prints.  companies is the
\* directory, each row its Ticker (the index) and its Company Name; a printed
\* row is the ticker and the name, without the padding of the columns.
list_companies(companies, term) ==
    LET search_term == Lower(term)
        failed == [error |-> TRUE, rows |-> <<>>,
                   stdout |-> <<"Error retrieving companies list">>]
        found == IF search_term = "" THEN companies
                 ELSE SelectSeq(companies, LAMBDA c :
                          \/ str_contains(c.name, search_term)
                          \/ str_contains(Text(c.ticker), search_term))
    IN  IF search_term # "" /\ ~HasStrAccessor(companies) THEN failed  \* AttributeError
        ELSE IF search_term # "" /\ re_error(search_term) THEN failed   \* re.error
        ELSE IF found = <<>>
        THEN [error |-> FALSE, rows |-> <<>>,
              stdout |-> <<"No companies found matching '" \o search_term \o "'">>]
        ELSE [error |-> FALSE, rows |-> found,
              stdout |-> [j \in 1 .. Len(found) |->
                            found[j].ticker \o "  " \o
                            (IF IsNa(found[j].name) THEN "NaN" ELSE found[j].name.s)]]

\* ------------------------------------------------------ the pipeline steps
\* What a step works on: the lists main() hands to it, the files written
\* and the messages printed.
NoneDf == [none |-> TRUE, df |-> DataFrame(<<>>, <<>>, <<>>)]

Some(df) == [none |-> FALSE, df |-> df]

Variant(cmd) == CASE cmd = "fy" -> "annual" [] cmd = "q" -> "quarterly" [] cmd = "ttm" -> "ttm"

\* A bug the naming could have: the file names of every cadence alike.
SuffixOfAnnual(cmd) == ""

Suffix(cmd) == CASE cmd = "fy" -> "" [] cmd = "q" -> "_q1234" [] cmd = "ttm" -> "_ttm"

Step(ret, io) == [raised |-> FALSE, ret |-> ret, io |-> io]

\* A bug the handlers could have: the failure of a statement passed on to main().
WarnPropagates(io, msg) == [raised |-> TRUE, ret |-> NoneDf, io |-> io]

\* except Exception as e: print(f"Warning: ..."); return None
Warn(io, msg) == Step(NoneDf, [io EXCEPT !.stdout = Append(@, msg)])

\* A bug the output switch could have: the CSV written in a Markdown run too.
EmitBoth(io, df, title, is_price_data, filename, tag, warning) ==
    LET r == dataframe_to_markdown(df, title, is_price_data)
    IN  IF io.markdown /\ r.raised THEN Warn(io, warning)
        ELSE Step(Some(df),
                  [io EXCEPT !.markdown_content =
                                 IF io.markdown THEN Append(@, r.md) ELSE @,
                             !.csv_files = Append(@, save_dataframe(df, filename)),
                             !.saved_files = Append(@, tag)])

\* A bug the steps could have: the table returned although its section failed.
EmitKeepsFrame(io, df, title, is_price_data, filename, tag, warning) ==
    IF io.markdown
    THEN LET r == dataframe_to_markdown(df, title, is_price_data)
         IN  IF r.raised THEN Step(Some(df), [io EXCEPT !.stdout = Append(@, warning)])
             ELSE Step(Some(df), [io EXCEPT !.markdown_content = Append(@, r.md),
                                            !.saved_files = Append(@, tag)])
    ELSE Step(Some(df), [io EXCEPT !.csv_files = Append(@, save_dataframe(df, filename)),
                                   !.saved_files = Append(@, tag)])

\* A bug the steps could have: the tag recorded before the output is made.
EmitTagFirst(io, df, title, is_price_data, filename, tag, warning) ==
    IF io.markdown
    THEN LET r == dataframe_to_markdown(df, title, is_price_data)
             tagged == [io EXCEPT !.saved_files = Append(@, tag)]
         IN  IF r.raised THEN Warn(tagged, warning)
             ELSE Step(Some(df), [tagged EXCEPT !.markdown_content = Append(@, r.md)])
    ELSE Step(Some(df), [io EXCEPT !.csv_files = Append(@, save_dataframe(df, filename)),
                                   !.saved_files = Append(@, tag)])

\* if markdown: md_list.append(...) else: save_dataframe(...); saved_files.append(tag)
Emit(io, df, title, is_price_data, filename, tag, warning) ==
    IF io.markdown
    THEN LET r == dataframe_to_markdown(df, title, is_price_data)
         IN  IF r.raised THEN Warn(io, warning)
             ELSE Step(Some(df), [io EXCEPT !.markdown_content = Append(@, r.md),
                                            !.saved_files = Append(@, tag)])
    ELSE Step(Some(df), [io EXCEPT !.csv_files = Append(@, save_dataframe(df, filename)),
                                   !.saved_files = Append(@, tag)])

process_statement(load, tkr, suffix, title, file_tag, io) ==
    LET warning == "Warning: Could not load " \o title \o " data"
    IN  IF load.raised THEN Warn(io, warning)
        ELSE IF "Ticker" \notin Range(load.df.names) THEN Warn(io, warning)  \* KeyError
        ELSE LET df == FilterTicker(load.df, tkr)
             IN  IF df.rows = <<>> THEN Step(NoneDf, io)
                 ELSE Emit(io, StripFrame(RoundFrame(df)), title, FALSE,
                           tkr \o "_" \o file_tag \o suffix \o ".csv", file_tag, warning)

\* if pl is not None
SharesNeedsIncome(pl_) == ~pl_.none

process_shares_data(pl_, tkr, suffix, io) ==
    IF ~SharesNeedsIncome(pl_) THEN Step(NoneDf, io)
    ELSE
    LET shares_cols == SelectSeq(Positions(pl_.df.columns),
                                 LAMBDA i : Contains(pl_.df.columns[i], "Shares"))
    IN  IF Len(shares_cols) < 2 THEN Step(NoneDf, io)
        ELSE LET picked == SelectColumns(pl_.df, SubSeq(shares_cols, 1, 2))
                 shares_data == [picked EXCEPT !.columns =
                     <<"Common Shares Outstanding", "Weighted Average Shares">>]
             IN  Emit(io, StripFrame(RoundFrame(shares_data)), "Share Data", FALSE,
                      tkr \o "_shares" \o suffix \o ".csv", "shares",
                      "Warning: Could not extract shares data")

\* A bug the join could have: the price strictly before the fiscal date.
OnOrBeforeStrict(prices, date) ==
    SelectSeq(prices.rows, LAMBDA row : Level(prices, row, "Date").n < date.n)

\* prices[mask], mask = prices.index.get_level_values('Date') <= date
OnOrBefore(prices, date) ==
    SelectSeq(prices.rows, LAMBDA row : Level(prices, row, "Date").n <= date.n)

\* prices[mask].index.get_level_values('Date').max()
ClosestDate(prices, rows) ==
    CHOOSE d \in {Level(prices, row, "Date").n : row \in Range(rows)} :
        \A e \in {Level(prices, row, "Date").n : row \in Range(rows)} : e <= d

\* A bug the join could have: one lookup per income row, not per fiscal date.
FiscalDatesPerRow(pl_) ==
    [j \in 1 .. Len(pl_.df.rows) |-> Level(pl_.df, pl_.df.rows[j], "Report Date")]

\* pl.index.get_level_values('Report Date').unique()
FiscalDates(pl_) ==
    Unique([j \in 1 .. Len(pl_.df.rows) |-> Level(pl_.df, pl_.df.rows[j], "Report Date")])

\* price_data_list: for each fiscal date, the rows of the closest prior price date
RECURSIVE PriceDataList(_, _)
PriceDataList(prices, fiscal_dates) ==
    IF fiscal_dates = <<>> THEN <<>>
    ELSE LET date == Head(fiscal_dates)
             before == OnOrBefore(prices, date)
             price_row ==
                 IF before = <<>> THEN <<>>
                 ELSE SelectSeq(prices.rows, LAMBDA row :
                          Level(prices, row, "Date").n = ClosestDate(prices, before))
         IN  (IF price_row = <<>> THEN <<>> ELSE <<price_row>>)
             \o PriceDataList(prices, Tail(fiscal_dates))

\* pd.concat(price_data_list)
RECURSIVE Concat(_)
Concat(frames) == IF frames = <<>> THEN <<>> ELSE Head(frames) \o Concat(Tail(frames))

process_price_data(tkr, pl_, load, suffix, io) ==
    LET warning == "Warning: Could not load Price data"
    IN  IF pl_.none THEN Step(NoneDf, io)
        ELSE IF "Report Date" \notin Range(pl_.df.names) THEN Warn(io, warning)
        ELSE IF load.raised THEN Warn(io, warning)
        ELSE IF "Ticker" \notin Range(load.df.names) THEN Warn(io, warning)
        ELSE
        LET prices == FilterTicker(load.df, tkr)
        IN  IF prices.rows = <<>> THEN Step(NoneDf, io)
            ELSE IF "Date" \notin Range(prices.names) THEN Warn(io, warning)
            ELSE
            LET price_data_list == PriceDataList(prices, FiscalDates(pl_))
                price_data == [prices EXCEPT !.rows = Concat(price_data_list)]
                names == SelectSeq(<<"Close", "Adj. Close">>,
                    LAMBDA col : col \in Range(prices.columns))
                price_columns == [i \in 1 .. Len(names) |-> IndexOf(prices.columns, names[i])]
            IN  IF price_data_list = <<>> \/ price_columns = <<>> THEN Step(NoneDf, io)
                ELSE Emit(io,
                          StripFrame(RoundFrame(ScaleFrame(
                              SelectColumns(price_data, price_columns)))),
                          "Price Data", TRUE,
                          tkr \o "_price" \o suffix \o ".csv", "price", warning)

\* ------------------------------------------------- what the provider holds
\* The tables simfin hands out.  A row is made from its ticker t, its date d
\* and the value v of its first line item.
Ticker == "AAA"

SimFinIdOf(t) == IF t = Ticker THEN 111 ELSE 222

IndexValue(name, t, d) ==
    CASE name = "Ticker" -> Text(t)
      [] name = "SimFinId" -> IntV(SimFinIdOf(t))
      [] OTHER -> Date(d)

ColumnValue(col, t, d, v) ==
    CASE col = "SimFinId" -> IntV(SimFinIdOf(t))
      [] col = "Shares (Basic)" -> Num(5000125 + d)
      [] col = "Shares (Diluted)" -> Num(5100000 + d)
      [] col = "Adj. Close" -> Num(100 * d + 7)
      [] col = "Currency" -> Text("USD")
      [] col = "Fiscal Year" -> IntV(2023)
      [] col = "Fiscal Period" -> Text("FY")
      [] col = "Publish Date" -> Date(d)
      [] col = "Restated Date" -> Date(d)
      [] OTHER -> v

MakeRow(shape, t, d, v) ==
    [idx |-> [i \in 1 .. Len(shape.names) |-> IndexValue(shape.names[i], t, d)],
     vals |-> [i \in 1 .. Len(shape.columns) |-> ColumnValue(shape.columns[i], t, d, v)]]

\* keys: a sequence of <<ticker, date, value>>
MakeFrame(shape, keys) ==
    DataFrame(shape.names, shape.columns,
              [j \in 1 .. Len(keys) |-> MakeRow(shape, keys[j][1], keys[j][2], keys[j][3])])

Shape(names, columns) == [names |-> names, columns |-> columns]

\* load_income as simfin indexes it: SimFinId is a data column
IncomeShape == Shape(<<"Ticker", "Report Date">>,
                     <<"SimFinId", "Revenue", "Shares (Basic)", "Shares (Diluted)">>)

\* a provider table keyed by the ticker alone
SingleKeyShape == Shape(<<"Ticker">>, <<"SimFinId", "Revenue", "Shares (Basic)">>)

BalanceShape == Shape(<<"Ticker", "Report Date">>, <<"SimFinId", "Total Assets">>)

PriceShape == Shape(<<"Ticker", "Date">>, <<"SimFinId", "Close", "Adj. Close">>)

VolumeShape == Shape(<<"Ticker", "Date">>, <<"SimFinId", "Volume">>)

Amount == Num(1234567)

LoadRaised == [raised |-> TRUE, df |-> DataFrame(<<>>, <<>>, <<>>)]

Loaded(df) == [raised |-> FALSE, df |-> df]

NotLoaded == [raised |-> FALSE, df |-> DataFrame(<<>>, <<>>, <<>>), pending |-> TRUE]

SeqsUpTo(S, n) == UNION {[1 .. k -> S] : k \in 0 .. n}

OtherRow == <<"BBB", 1, Amount>>

\* the period ends the income statements of a run are drawn from
FiscalDays == {1, 2}

\* sf.load_income(variant=...): an error, or a table of some rows of the
\* ticker, after a row of another company or not
IncomeLoads ==
    {LoadRaised}
    \cup {Loaded(MakeFrame(IncomeShape, <<<<Ticker, 1, Inf(1)>>>>))}
    \cup {Loaded(MakeFrame(shape, other \o [j \in 1 .. Len(ds) |-> <<Ticker, ds[j], Amount>>])) :
            shape \in {IncomeShape, SingleKeyShape},
            other \in {<<>>, <<OtherRow>>},
            ds \in SeqsUpTo(FiscalDays, MaxPlRows)}

\* sf.load_balance, sf.load_cashflow
StatementLoads ==
    {LoadRaised}
    \cup {Loaded(MakeFrame(BalanceShape, keys)) :
            keys \in {<<OtherRow>>, <<OtherRow, <<Ticker, 1, Amount>>>>,
                      <<<<Ticker, 2, Inf(-1)>>>>}}

\* the rows of a daily price series on the days of D, in date order
RECURSIVE PriceKeys(_, _)
PriceKeys(D, t) ==
    IF D = {} THEN <<>>
    ELSE LET d == CHOOSE x \in D : \A y \in D : x <= y
         IN  <<<<t, d, Num(1000 * d + 234)>>>> \o PriceKeys(D \ {d}, t)

\* sf.load_shareprices(variant='daily'): an error, a table without price
\* columns, no row of the ticker, the daily series, the series from day 2 on
PriceLoads ==
    {LoadRaised}
    \cup {Loaded(MakeFrame(VolumeShape, PriceKeys(Dates, Ticker)))}
    \cup {Loaded(MakeFrame(PriceShape, <<OtherRow>> \o PriceKeys(D, Ticker))) :
            D \in {{}, Dates, Dates \ {1}}}

\* ------------------------------------------------------------------- state
VARIABLES
    pc,                 \* where main() is
    command,            \* args.command
    md,                 \* args.md
    ticker,             \* args.ticker
    pl,                 \* the income statement process_statement returned
    saved_files,
    markdown_content,   \* each element the lines of one appended string
    csv_files,          \* the CSV files written, in order
    md_files,           \* the Markdown files written
    stdout,             \* the messages printed
    exit_status,        \* the exit status of the process, -1 while it runs
    loaded,             \* what each loader returned in this run
    call,               \* a function under test and its arguments
    result              \* what it returned

vars == <<pc, command, md, ticker, pl, saved_files, markdown_content, csv_files,
          md_files, stdout, exit_status, loaded, call, result>>

Tags == {"pl", "bs", "cf", "price"}

NoCall == [fn |-> "none"]

Pending == [pending |-> TRUE]

IO == [markdown |-> md, markdown_content |-> markdown_content,
       saved_files |-> saved_files, csv_files |-> csv_files, stdout |-> stdout]

EmptyIO(markdown) == [markdown |-> markdown, markdown_content |-> <<>>,
                      saved_files |-> <<>>, csv_files |-> <<>>, stdout |-> <<>>]

\* the exit status of a process whose main() returned: sys.exit(None)
ExitStatus == 0

Init ==
    /\ pc = "start"
    /\ command \in {"fy", "q", "ttm"}
    /\ md \in BOOLEAN
    /\ ticker = Ticker
    /\ pl = NoneDf
    /\ saved_files = <<>>
    /\ markdown_content = <<>>
    /\ csv_files = <<>>
    /\ md_files = <<>>
    /\ stdout = <<>>
    /\ exit_status = -1
    /\ loaded = [tag \in Tags |-> NotLoaded]
    /\ call = NoCall
    /\ result = Pending

\* A bug main() could have: the cash flow statement fetched before the balance sheet.
StepAfterSwapped(step) ==
    CASE step = "start" -> "pl"
      [] step = "pl" -> "cf"
      [] step = "cf" -> "bs"
      [] step = "bs" -> "shares"
      [] step = "shares" -> "price"
      [] step = "price" -> "finish"

\* the order in which main() runs the steps
StepAfter(step) ==
    CASE step = "start" -> "pl"
      [] step = "pl" -> "bs"
      [] step = "bs" -> "cf"
      [] step = "cf" -> "shares"
      [] step = "shares" -> "price"
      [] step = "price" -> "finish"

\* What main() does with the outcome r of a step: go on, or, had the step
\* raised, the handler of its own try block.
Continue(r) ==
    /\ markdown_content' = r.io.markdown_content
    /\ saved_files' = r.io.saved_files
    /\ csv_files' = r.io.csv_files
    /\ IF r.raised
       THEN /\ stdout' = Append(r.io.stdout, "Error retrieving data for " \o ticker)
            /\ pc' = "done"
            /\ exit_status' = ExitStatus
       ELSE /\ stdout' = r.io.stdout
            /\ pc' = StepAfter(pc)
            /\ exit_status' = exit_status
    /\ UNCHANGED <<command, md, ticker, md_files, call, result>>

Begin ==
    /\ pc = "start"
    /\ pc' = StepAfter(pc)
    /\ saved_files' = <<>>
    /\ markdown_content' = IF md THEN << <<"# " \o ticker>>, <<"">> >> ELSE <<>>
    /\ UNCHANGED <<command, md, ticker, pl, csv_files, md_files, stdout, exit_status,
                   loaded, call, result>>

Statement(step, title) ==
    /\ pc = step
    /\ \E load \in (IF step = "pl" THEN IncomeLoads ELSE StatementLoads) :
          LET r == process_statement(load, ticker, Suffix(command), title, step, IO)
          IN  /\ Continue(r)
              /\ pl' = IF step = "pl" THEN r.ret ELSE pl
              /\ loaded' = [loaded EXCEPT ![step] = load]

Income == Statement("pl", "Income Statement")

Balance == Statement("bs", "Balance Sheet")

CashFlow == Statement("cf", "Cash Flow Statement")

Shares ==
    /\ pc = "shares"
    /\ LET note == "Note: Derived metrics are not available in the current plan."
           r == process_shares_data(pl, ticker, Suffix(command),
                                    [IO EXCEPT !.stdout = Append(@, note)])
       IN  Continue(r)
    /\ UNCHANGED <<pl, loaded>>

Price ==
    /\ pc = "price"
    /\ \E load \in PriceLoads :
          /\ Continue(process_price_data(ticker, pl, load, Suffix(command), IO))
          /\ loaded' = [loaded EXCEPT !["price"] = load]
    /\ UNCHANGED pl

\* "\n".join(markdown_content)
Document(content) == Concat(content)

Finish ==
    /\ pc = "finish"
    /\ pc' = "done"
    /\ exit_status' = ExitStatus
    /\ IF saved_files = <<>>
       THEN /\ stdout' = Append(stdout, "No data could be saved for " \o ticker)
            /\ md_files' = md_files
       ELSE IF md
       THEN /\ md_files' = Append(md_files, [name |-> ticker \o Suffix(command) \o ".md",
                                             lines |-> Document(markdown_content)])
            /\ stdout' = Append(stdout, "Successfully saved markdown file: "
                                        \o ticker \o Suffix(command) \o ".md")
       ELSE /\ md_files' = md_files
            /\ stdout' = Append(stdout, "Successfully saved the following datasets for "
                                        \o ticker \o ": " \o Join(saved_files, ", "))
    /\ UNCHANGED <<command, md, ticker, pl, saved_files, markdown_content, csv_files,
                   loaded, call, result>>

Next == Begin \/ Income \/ Balance \/ CashFlow \/ Shares \/ Price \/ Finish

Spec == Init /\ [][Next]_vars

\* ------------------------------------------------- the functions on their own
\* A call of one function of cli.py on arguments drawn from bounded sets.
CellValues ==
    {Amount, Num(-2500), IntV(2023), NaN, Inf(1), Inf(-1),
     Text("USD"), Text("2023-02-01"), Text("2023-02-30")}
    \cup {Date(d) : d \in Dates}

TableValues == {Amount, NaN, Inf(1), Text("n/a")}

\* the key of the data model: Ticker, SimFinId and the period
KeyedShape == Shape(<<"Ticker", "SimFinId", "Report Date">>, <<"Revenue">>)

\* a key of the hidden identity fields alone
HiddenKeyShape == Shape(<<"Ticker", "SimFinId">>, <<"Revenue">>)

\* a table keyed by the period alone
DateKeyShape == Shape(<<"Report Date">>, <<"SimFinId", "Revenue">>)

\* a statement with the metadata columns of the provider
MetadataShape == Shape(<<"Ticker", "Report Date">>,
                       <<"Currency", "Fiscal Year", "Fiscal Period", "Publish Date",
                         "Restated Date", "Revenue">>)

RenderShapes == {IncomeShape, KeyedShape, HiddenKeyShape, SingleKeyShape,
                 DateKeyShape, PriceShape, MetadataShape}

FormatCalls ==
    [fn : {"format_number", "format_price", "format_date"}, value : CellValues]

RenderCalls ==
    {[fn |-> "dataframe_to_markdown",
      df |-> MakeFrame(shape, [j \in 1 .. Len(keys) |-> <<Ticker, keys[j][1], keys[j][2]>>]),
      title |-> IF shape = PriceShape THEN "Price Data" ELSE "Income Statement",
      is_price_data |-> shape = PriceShape] :
        shape \in RenderShapes, keys \in SeqsUpTo({1, MaxDate} \X TableValues, MaxRows)}

\* the tickers of a statement table: the target, its lower-case form, another
StatementTickers == {Ticker, Lower(Ticker), "BBB"}

\* A statement table of the provider in any row order; the line item of its
\* j-th row is j thousand.
StatementCalls ==
    {[fn |-> "process_statement",
      keys |-> keys,
      load |-> Loaded(MakeFrame(BalanceShape,
                  [j \in 1 .. Len(keys) |-> <<keys[j][1], keys[j][2], Num(1000000 * j)>>])),
      markdown |-> markdown] :
        keys \in SeqsUpTo(StatementTickers \X FiscalDays, MaxStatementRows),
        markdown \in BOOLEAN}

\* sys.argv[1:], up to three words
Words == {"--md", "help", "list", "fy", "q", "ttm", Ticker}

ParseCalls == [fn : {"parse_args"}, argv : SeqsUpTo(Words, 3)]

SaveCalls ==
    {[fn |-> "save_dataframe",
      df |-> MakeFrame(shape, [j \in 1 .. Len(keys) |-> <<Ticker, keys[j][1], keys[j][2]>>]),
      filename |-> Ticker \o "_pl.csv"] :
        shape \in {IncomeShape, MetadataShape},
        keys \in SeqsUpTo({1, MaxDate} \X TableValues, MaxRows)}

\* sf.load_companies(): the directory, some of its companies
Directory == <<[ticker |-> "AAPL", name |-> Text("Apple Inc.")],
               [ticker |-> "MSFT", name |-> Text("Microsoft (MS)")],
               [ticker |-> "ZZZ", name |-> NaN]>>

Directories ==
    {SelectSeq(Directory, LAMBDA c : c.ticker \in kept) :
        kept \in SUBSET {Directory[j].ticker : j \in DOMAIN Directory}}

SearchTerms == {"", "appl", "APPL", "Inc.", "a.p", ".", "(", "(MS)", "sft)", "*", "zz", "nan"}

ListCalls == [fn : {"list"}, companies : Directories, search_term : SearchTerms]

PriceCalls ==
    {[fn |-> "process_price_data",
      pl |-> Some(MakeFrame(IncomeShape, [j \in 1 .. Len(ds) |-> <<Ticker, ds[j], Amount>>])),
      load |-> Loaded(MakeFrame(PriceShape, <<OtherRow>> \o PriceKeys(D, Ticker))),
      markdown |-> markdown] :
        ds \in SeqsUpTo(Dates, MaxRows) \ {<<>>}, D \in SUBSET Dates, markdown \in BOOLEAN}

InitCalls ==
    /\ pc = "idle"
    /\ command = "fy"
    /\ md = FALSE
    /\ ticker = Ticker
    /\ pl = NoneDf
    /\ saved_files = <<>>
    /\ markdown_content = <<>>
    /\ csv_files = <<>>
    /\ md_files = <<>>
    /\ stdout = <<>>
    /\ exit_status = -1
    /\ loaded = [tag \in Tags |-> NotLoaded]
    /\ \/ call \in FormatCalls
       \/ call \in RenderCalls
       \/ call \in PriceCalls
       \/ call \in ListCalls
       \/ call \in SaveCalls
       \/ call \in StatementCalls
       \/ call \in ParseCalls
    /\ result = Pending

Idle == UNCHANGED <<pc, command, md, ticker, pl, saved_files, markdown_content,
                    csv_files, md_files, stdout, exit_status, loaded, call>>

ApplyFormat ==
    /\ result = Pending
    /\ call.fn \in {"format_number", "format_price", "format_date"}
    /\ result' = CASE call.fn = "format_number" -> format_number(call.value)
                   [] call.fn = "format_price" -> format_price(call.value)
                   [] call.fn = "format_date" -> format_date(call.value)
    /\ Idle

ApplyRender ==
    /\ result = Pending
    /\ call.fn = "dataframe_to_markdown"
    /\ result' = dataframe_to_markdown(call.df, call.title, call.is_price_data)
    /\ Idle

ApplyPriceJoin ==
    /\ result = Pending
    /\ call.fn = "process_price_data"
    /\ result' = process_price_data(Ticker, call.pl, call.load, "", EmptyIO(call.markdown))
    /\ Idle

ApplyList ==
    /\ result = Pending
    /\ call.fn = "list"
    /\ result' = list_companies(call.companies, call.search_term)
    /\ Idle

ApplySave ==
    /\ result = Pending
    /\ call.fn = "save_dataframe"
    /\ result' = save_dataframe(call.df, call.filename)
    /\ Idle

ApplyStatement ==
    /\ result = Pending
    /\ call.fn = "process_statement"
    /\ result' = process_statement(call.load, Ticker, "", "Balance Sheet", "bs",
                                   EmptyIO(call.markdown))
    /\ Idle

ApplyParse ==
    /\ result = Pending
    /\ call.fn = "parse_args"
    /\ result' = parse_args(call.argv)
    /\ Idle

NextCalls == ApplyFormat \/ ApplyRender \/ ApplyPriceJoin \/ ApplyList \/ ApplySave
             \/ ApplyStatement \/ ApplyParse

SpecCalls == InitCalls /\ [][NextCalls]_vars

\* ------------------------------------------------------------------ claims
Done == pc = "done"

Returned_ == "pending" \notin DOMAIN result

StartsWith(str, prefix) ==
    Len(str) >= Len(prefix) /\ SubSeq(str, 1, Len(prefix)) = prefix

LastMessage == stdout[Len(stdout)]

Saved(tag) == tag \in Range(saved_files)

NoDataReported ==
    (Done /\ saved_files = <<>>) => LastMessage = "No data could be saved for " \o ticker

\* C1: a run that saved nothing reports "No data could be saved for <ticker>"
\* and ends with a non-zero exit status.
C1_NoDataExitsNonZero ==
    (Done /\ saved_files = <<>>) =>
        /\ LastMessage = "No data could be saved for " \o ticker
        /\ exit_status # 0

\* A statement run on its own, on what the provider returned for it in this
\* run: whether it is written.
TitleOf(tag) == CASE tag = "pl" -> "Income Statement"
                  [] tag = "bs" -> "Balance Sheet"
                  [] tag = "cf" -> "Cash Flow Statement"

AloneStatement(tag) ==
    process_statement(loaded[tag], ticker, Suffix(command), TitleOf(tag), tag,
                      EmptyIO(md)).io.saved_files # <<>>

\* the income rows of the ticker as the provider returned them
IncomeSource ==
    IF loaded["pl"].raised \/ "Ticker" \notin Range(loaded["pl"].df.names) THEN NoneDf
    ELSE LET df == FilterTicker(loaded["pl"].df, ticker)
         IN  IF df.rows = <<>> THEN NoneDf ELSE Some(StripFrame(RoundFrame(df)))

AloneShares ==
    process_shares_data(IncomeSource, ticker, Suffix(command), EmptyIO(md)).io.saved_files
        # <<>>

AlonePrice ==
    process_price_data(ticker, IncomeSource, loaded["price"], Suffix(command),
                       EmptyIO(md)).io.saved_files # <<>>

C3_CellFailureNeverPropagates ==
    Returned_ =>
        /\ call.fn \in {"format_number", "format_price", "format_date"}
              => ~result.raised
        /\ (call.fn = "dataframe_to_markdown" /\ call.df.rows # <<>>)
              => ~result.raised

\* The as-of join on its own: the fiscal days of the income statement, the
\* days the ticker has a price on, and the dates of the rows written.
JoinReturned == Returned_ /\ call.fn = "process_price_data"

GivenFiscalDays ==
    [j \in 1 .. Len(call.pl.df.rows) |->
        Level(call.pl.df, call.pl.df.rows[j], "Report Date").n]

GivenPriceRows ==
    {row \in Range(call.load.df.rows) : Level(call.load.df, row, "Ticker") = Text(Ticker)}

GivenPriceDays == {Level(call.load.df, row, "Date").n : row \in GivenPriceRows}

HasPrior(D) == \E p \in GivenPriceDays : p <= D

AsOf(D) == CHOOSE p \in GivenPriceDays :
               p <= D /\ \A q \in GivenPriceDays : q <= D => q <= p

\* the price days of the fiscal days, one per distinct fiscal day that has one
RECURSIVE ExpectedDays(_, _)
ExpectedDays(ds, seen) ==
    IF ds = <<>> THEN <<>>
    ELSE (IF Head(ds) \notin seen /\ HasPrior(Head(ds)) THEN <<AsOf(Head(ds))>> ELSE <<>>)
         \o ExpectedDays(Tail(ds), seen \cup {Head(ds)})

\* the Date of each row of the price output, as text
WrittenDates ==
    IF result.io.saved_files = <<>> THEN <<>>
    ELSE IF call.markdown
    THEN LET lines == result.io.markdown_content[1]
         IN  [j \in 1 .. (Len(lines) - 5) |-> SubSeq(lines[j + 4], 3, 12)]
    ELSE LET df == result.io.csv_files[1].df
         IN  [j \in 1 .. Len(df.rows) |-> DateStr(Level(df, df.rows[j], "Date").n)]

\* C4: the price row written for a fiscal date D is the row of the latest
\* price date <= D; a fiscal date with no price on or before it gets no row;
\* no row of a later date is written for it.
C4_AsOfJoin ==
    JoinReturned =>
        LET expected == ExpectedDays(GivenFiscalDays, {})
        IN  /\ WrittenDates = [j \in 1 .. Len(expected) |-> DateStr(expected[j])]
            /\ ~call.markdown /\ expected # <<>> =>
                  LET df == result.io.csv_files[1].df
                  IN  \A j \in 1 .. Len(df.rows) :
                        \E row \in GivenPriceRows :
                            /\ Level(call.load.df, row, "Date").n = expected[j]
                            /\ df.rows[j].vals[1] = Num(100 * row.vals[2].n)

C4_Witness ==
    /\ JoinReturned
    /\ \E D \in Range(GivenFiscalDays) : ~HasPrior(D)
    /\ \E D \in Range(GivenFiscalDays) :
          /\ HasPrior(D) /\ AsOf(D) < D
          /\ \E p \in GivenPriceDays : p > D
          /\ DateStr(AsOf(D)) \in Range(WrittenDates)

\* C5: the price output has one row per distinct fiscal date that has a price
\* on or before it, also when two of them share their price date.
C5_OneRowPerFiscalDate ==
    JoinReturned =>
        Len(WrittenDates) = Cardinality({D \in Range(GivenFiscalDays) : HasPrior(D)})

C5_Witness ==
    /\ JoinReturned
    /\ \E D1, D2 \in Range(GivenFiscalDays) :
          D1 # D2 /\ HasPrior(D1) /\ HasPrior(D2) /\ AsOf(D1) = AsOf(D2)
    /\ Len(WrittenDates) = 2
    /\ WrittenDates[1] = WrittenDates[2]

\* C6: a run that saved at least one dataset exits with status zero; a
\* statement that failed to load left a warning and nothing else.
C6_PartialSuccessExitsZero ==
    (Done /\ saved_files # <<>>) =>
        /\ exit_status = 0
        /\ StartsWith(LastMessage, "Successfully saved")
        /\ \A i \in 1 .. (Len(stdout) - 1) :
              StartsWith(stdout[i], "Warning: Could not ") \/ StartsWith(stdout[i], "Note: ")
        /\ \A tag \in {"pl", "bs", "cf"} :
              loaded[tag].raised =>
                  ("Warning: Could not load " \o TitleOf(tag) \o " data") \in Range(stdout)

C6_Witness ==
    /\ Done
    /\ saved_files = <<"bs">>
    /\ loaded["pl"].raised /\ loaded["cf"].raised
    /\ exit_status = 0

Headings(lines) == SelectSeq(lines, LAMBDA line : StartsWith(line, "## "))

\* C7: a run with --md writes no CSV file and one Markdown file, and that only
\* when a section was produced; a run without it writes no Markdown file and
\* one CSV file per saved dataset, five at most.
C7_OutputKindExclusive ==
    /\ md => /\ csv_files = <<>>
             /\ Len(md_files) <= 1
             /\ md_files # <<>> => Headings(md_files[1].lines) # <<>>
             /\ Done => (md_files # <<>> <=> saved_files # <<>>)
    /\ ~md => /\ md_files = <<>>
              /\ Len(csv_files) = Len(saved_files)
              /\ Len(csv_files) <= 5
              /\ \A i, j \in DOMAIN csv_files : csv_files[i].name = csv_files[j].name => i = j

C7_Witness ==
    /\ Done /\ md
    /\ Len(md_files) = 1 /\ csv_files = <<>>
    /\ Len(saved_files) = 5

SectionRank(heading) ==
    CASE StartsWith(heading, "## Income Statement") -> 1
      [] StartsWith(heading, "## Balance Sheet") -> 2
      [] StartsWith(heading, "## Cash Flow Statement") -> 3
      [] StartsWith(heading, "## Share Data") -> 4
      [] StartsWith(heading, "## Price Data") -> 5
      [] OTHER -> 0

\* C8: the document starts with "# <Ticker>" and its sections come in the
\* order Income Statement, Balance Sheet, Cash Flow Statement, Shares, Price,
\* none of them twice.
C8_SectionsInFixedOrder ==
    \A f \in DOMAIN md_files :
        LET lines == md_files[f].lines
            hs == Headings(lines)
        IN  /\ lines[1] = "# " \o ticker
            /\ \A j \in DOMAIN hs : SectionRank(hs[j]) >= 1
            /\ \A j, k \in DOMAIN hs : j < k => SectionRank(hs[j]) < SectionRank(hs[k])

C8_Witness ==
    /\ Done /\ md_files # <<>>
    /\ Len(Headings(md_files[1].lines)) = 4
    /\ Saved("bs") /\ Saved("cf") /\ ~Saved("price")

RenderReturned == Returned_ /\ call.fn = "dataframe_to_markdown" /\ ~result.raised

\* C9: neither Ticker nor SimFinId is a header or a cell of a rendered table,
\* whatever the key of the source table.
C9_HiddenFieldsNeverShown ==
    RenderReturned =>
        /\ \A h \in Range(result.headers) : h \notin HiddenFields
        /\ \A j \in DOMAIN result.rows : \A cell \in Range(result.rows[j]) :
              cell \notin {Ticker, ToString(SimFinIdOf(Ticker))}

\* C10: the heading is "## <Title> (SimFinId: <id>)" exactly when SimFinId is
\* a key field or a data column of the source table, "## <Title>" otherwise.
C10_HeadingNamesSimFinId ==
    RenderReturned =>
        result.md[1] =
            "## " \o call.title \o
            (IF "SimFinId" \in Range(call.df.names) \cup Range(call.df.columns)
             THEN " (SimFinId: " \o ToString(SimFinIdOf(Ticker)) \o ")"
             ELSE "")

\* C11: the alignment line holds one marker per header, in header order: ":-"
\* for Report Date, Date, Fiscal Year, Fiscal Period, Currency, Publish Date
\* and Restated Date, "-:" for every other header.
C11_AlignmentByHeaderName ==
    RenderReturned =>
        /\ Len(result.alignments) = Len(result.headers)
        /\ \A i \in DOMAIN result.headers :
              result.alignments[i] = ":-" <=>
                  result.headers[i] \in {"Report Date", "Date", "Fiscal Year", "Fiscal Period",
                                         "Currency", "Publish Date", "Restated Date"}
        /\ \A i \in DOMAIN result.headers : result.alignments[i] \in {":-", "-:"}
        /\ result.md[3] = TableLine(result.headers)
        /\ result.md[4] = TableLine(result.alignments)

C11_Witness ==
    /\ RenderReturned
    /\ result.headers = <<"Report Date", "Currency", "Fiscal Year", "Fiscal Period",
                          "Publish Date", "Restated Date", "Revenue">>
    /\ result.md[4] = "| :- | :- | :- | :- | :- | :- | -: |"
    /\ Len(result.rows) = MaxRows

\* the price rows of the ticker the join selects, one per written row
SelectedPriceRows ==
    LET expected == ExpectedDays(GivenFiscalDays, {})
    IN  [j \in 1 .. Len(expected) |->
            CHOOSE row \in GivenPriceRows : Level(call.load.df, row, "Date").n = expected[j]]

\* the source price p of column col of a price row, times 100, 2 decimals
PriceShown(row, col) == Fixed2(Times100(row.vals[IndexOf(call.load.df.columns, col)]))

CsvPriceExact ==
    (JoinReturned /\ ~call.markdown /\ result.io.saved_files # <<>>) =>
        LET lines == result.io.csv_files[1].lines
        IN  /\ Len(lines) = Len(SelectedPriceRows) + 1
            /\ \A j \in DOMAIN SelectedPriceRows :
                  lines[j + 1] = Join(<<Quoted(Ticker), Quoted(WrittenDates[j]),
                                        Quoted(PriceShown(SelectedPriceRows[j], "Close")),
                                        Quoted(PriceShown(SelectedPriceRows[j], "Adj. Close"))>>,
                                      ",")

\* C12: the Close and Adj. Close cells of the Markdown Price section are the
\* source price times 100, once, with 2 decimals: the number the CSV price
\* export writes for the same price.
C12_PriceScaledOnce ==
    (JoinReturned /\ call.markdown /\ result.io.saved_files # <<>>) =>
        LET lines == result.io.markdown_content[1]
        IN  /\ Len(lines) = Len(SelectedPriceRows) + 5
            /\ \A j \in DOMAIN SelectedPriceRows :
                  lines[j + 4] = TableLine(<<WrittenDates[j],
                                            PriceShown(SelectedPriceRows[j], "Close"),
                                            PriceShown(SelectedPriceRows[j], "Adj. Close")>>)

ListReturned == Returned_ /\ call.fn = "list"

\* the companies whose name or ticker holds the term as a literal substring,
\* letter case aside
LiteralMatches ==
    SelectSeq(call.companies, LAMBDA c :
        \/ ~IsNa(c.name) /\ Contains(Lower(c.name.s), Lower(call.search_term))
        \/ Contains(Lower(c.ticker), Lower(call.search_term)))

\* C13: `list t` returns exactly the companies whose name or ticker contains
\* t as a literal substring, case-insensitively; an empty t returns them all;
\* a missing name causes no error and matches nothing.
C13_LiteralSubstringSearch ==
    ListReturned =>
        /\ ~result.error
        /\ result.rows = LiteralMatches
        /\ call.search_term = "" => result.rows = call.companies

SaveReturned == Returned_ /\ call.fn = "save_dataframe"

\* A line of a CSV file read back: its fields, the quotes taken off.
RECURSIVE CsvFields(_, _, _)
CsvFields(line, field, quoted) ==
    IF Len(line) = 0 THEN <<field>>
    ELSE LET c == SubSeq(line, 1, 1)
             rest == SubSeq(line, 2, Len(line))
         IN  IF quoted
             THEN IF c # "\"" THEN CsvFields(rest, field \o c, TRUE)
                  ELSE IF Len(rest) > 0 /\ SubSeq(rest, 1, 1) = "\""
                       THEN CsvFields(SubSeq(rest, 2, Len(rest)), field \o "\"", TRUE)
                       ELSE CsvFields(rest, field, FALSE)
             ELSE IF c = "," THEN <<field>> \o CsvFields(rest, "", FALSE)
             ELSE IF c = "\"" THEN CsvFields(rest, field, TRUE)
             ELSE CsvFields(rest, field \o c, FALSE)

MissingAt(df, j) == {i \in DOMAIN df.rows[j].vals : df.rows[j].vals[i] = NaN}

\* C14: a missing value is rendered as the empty string: by each formatter,
\* in the row of a Markdown table and in the field of a CSV file; no cell of
\* either output reads "nan" or "NaN".
C14_MissingRendersEmpty ==
    /\ (Returned_ /\ call.fn \in {"format_number", "format_price", "format_date"}
            /\ call.value = NaN) => result = Returned("")
    /\ RenderReturned =>
          \A j \in DOMAIN result.rows :
              /\ \A cell \in Range(result.rows[j]) : cell \notin {"nan", "NaN"}
              /\ MissingAt(call.df, j) # {} => "" \in Range(result.rows[j])
    /\ SaveReturned =>
          /\ Len(result.lines) = Len(call.df.rows) + 1
          /\ \A j \in DOMAIN call.df.rows :
                LET fields == CsvFields(result.lines[j + 1], "", FALSE)
                IN  /\ Len(fields) = Len(call.df.names) + Len(call.df.columns)
                    /\ \A i \in DOMAIN fields : fields[i] \notin {"nan", "NaN"}
                    /\ \A i \in MissingAt(call.df, j) :
                          fields[Len(call.df.names) + i] = ""

C14_Witness ==
    /\ SaveReturned
    /\ call.df.columns = <<"SimFinId", "Revenue", "Shares (Basic)", "Shares (Diluted)">>
    /\ Len(call.df.rows) = 2
    /\ MissingAt(call.df, 1) = {} /\ MissingAt(call.df, 2) = {2}
    /\ CsvFields(result.lines[3], "", FALSE)
          = <<"AAA", "2023-01-01", "111", "", "5000.13", "5100.00">>

StatementReturned == Returned_ /\ call.fn = "process_statement"

\* the places in the source table of the rows of the target ticker, in order
TargetRows == SelectSeq(Positions(call.keys), LAMBDA j : call.keys[j][1] = Ticker)

\* C15: the rows written for a statement are the rows of the source table
\* whose Ticker is the target, compared exactly, all of them and no other, in
\* the order of the source table.
C15_ExactlyTheTickerRowsInOrder ==
    StatementReturned =>
        IF TargetRows = <<>>
        THEN result.ret.none /\ result.io = EmptyIO(call.markdown)
        ELSE IF call.markdown
        THEN LET lines == result.io.markdown_content[1]
             IN  /\ Len(lines) = Len(TargetRows) + 5
                 /\ \A k \in DOMAIN TargetRows :
                       lines[k + 4] = TableLine(<<DateStr(call.keys[TargetRows[k]][2]),
                                                 Thousands(1000 * TargetRows[k])>>)
        ELSE LET lines == result.io.csv_files[1].lines
             IN  /\ Len(lines) = Len(TargetRows) + 1
                 /\ \A k \in DOMAIN TargetRows :
                       CsvFields(lines[k + 1], "", FALSE) =
                           <<Ticker, DateStr(call.keys[TargetRows[k]][2]),
                             ToString(SimFinIdOf(Ticker)),
                             ToString(1000 * TargetRows[k]) \o ".00">>

C15_Witness ==
    /\ StatementReturned /\ call.markdown
    /\ call.keys = <<<<Ticker, 2>>, <<Lower(Ticker), 1>>, <<Ticker, 1>>>>
    /\ SubSeq(result.io.markdown_content[1], 5, 6)
          = <<"| 2023-02-01 | 1,000 |", "| 2023-01-01 | 3,000 |">>

Cadences == {"fy", "q", "ttm"}

Datasets == {"pl", "bs", "cf", "shares", "price"}

CadenceSuffix(cmd) == IF cmd = "fy" THEN "" ELSE IF cmd = "q" THEN "_q1234" ELSE "_ttm"

CsvName(tkr, tag, cmd) == tkr \o "_" \o tag \o CadenceSuffix(cmd) \o ".csv"

MdName(tkr, cmd) == tkr \o CadenceSuffix(cmd) \o ".md"

\* C16: a CSV file is named <ticker>_<tag><suffix>.csv and the document
\* <ticker><suffix>.md, the suffix empty for fy, _q1234 for q and _ttm for ttm;
\* no two cadences and no two datasets share a file name.
C16_FileNamesByTickerTagCadence ==
    /\ \A i \in DOMAIN csv_files :
          /\ saved_files[i] \in Datasets
          /\ csv_files[i].name = CsvName(ticker, saved_files[i], command)
    /\ \A i \in DOMAIN md_files : md_files[i].name = MdName(ticker, command)
    /\ \A c1, c2 \in Cadences :
          /\ MdName(ticker, c1) = MdName(ticker, c2) => c1 = c2
          /\ \A t1, t2 \in Datasets :
                /\ CsvName(ticker, t1, c1) = CsvName(ticker, t2, c2) => (c1 = c2 /\ t1 = t2)
                /\ CsvName(ticker, t1, c1) # MdName(ticker, c2)

C16_Witness ==
    /\ Done /\ command = "q" /\ ~md
    /\ [i \in DOMAIN csv_files |-> csv_files[i].name]
          = <<"AAA_pl_q1234.csv", "AAA_bs_q1234.csv", "AAA_cf_q1234.csv",
              "AAA_shares_q1234.csv", "AAA_price_q1234.csv">>

ParseReturned == Returned_ /\ call.fn = "parse_args"

MdBeforeCommandAccepted ==
    (ParseReturned /\ Len(call.argv) = 3 /\ call.argv[1] = "--md"
        /\ call.argv[2] \in Cadences /\ ~IsOption(call.argv[3])) =>
        result = Namespace(TRUE, call.argv[2], call.argv[3], None)

\* C17: `fy <ticker> --md`, and likewise for q and ttm, is accepted and
\* selects Markdown output, as `--md fy <ticker>` does.
C17_MdAcceptedAfterTicker ==
    (ParseReturned /\ Len(call.argv) = 3 /\ call.argv[1] \in Cadences
        /\ ~IsOption(call.argv[2]) /\ call.argv[3] = "--md") =>
        /\ result.exit = -1
        /\ result.md
        /\ result = parse_args(<<"--md", call.argv[1], call.argv[2]>>)

\* the headings of the sections appended so far
SectionsSoFar == Headings(Concat(markdown_content))

\* a dataset was output: its section is in the document, or its file written
Output(tag, title) ==
    \/ \E h \in Range(SectionsSoFar) : StartsWith(h, "## " \o title)
    \/ \E i \in DOMAIN csv_files :
          csv_files[i].name = ticker \o "_" \o tag \o Suffix(command) \o ".csv"

\* the provider holds a price of the ticker and the price columns
PriceAvailable ==
    /\ ~loaded["price"].raised
    /\ "Close" \in Range(loaded["price"].df.columns)
    /\ \E row \in Range(loaded["price"].df.rows) : row.idx[1] = Text(ticker)

\* C18: shares and price are output only if the income statement was output
\* in the same run; with the income statement empty for the ticker or failed,
\* neither is output, whatever the price series holds.
C18_SharesAndPriceNeedIncome ==
    /\ Output("shares", "Share Data") => Output("pl", "Income Statement")
    /\ Output("price", "Price Data") => Output("pl", "Income Statement")
    /\ (pc \notin {"start", "pl"} /\ (IncomeSource.none \/ ~Saved("pl"))) =>
          /\ ~Output("shares", "Share Data") /\ ~Output("price", "Price Data")
          /\ ~Saved("shares") /\ ~Saved("price")

C18_Witness ==
    /\ Done /\ md
    /\ ~IncomeSource.none /\ ~Saved("pl")
    /\ PriceAvailable
    /\ Saved("bs")
    /\ ~Output("shares", "Share Data") /\ ~Output("price", "Price Data")

TagRank(tag) == CASE tag = "pl" -> 1 [] tag = "bs" -> 2 [] tag = "cf" -> 3
                  [] tag = "shares" -> 4 [] tag = "price" -> 5

\* the rows of the ticker in what a loader returned: none when it failed
HasRows(tag) ==
    /\ ~loaded[tag].raised
    /\ "Ticker" \in Range(loaded[tag].df.names)
    /\ FilterTicker(loaded[tag].df, ticker).rows # <<>>

\* C19: after every step saved_files holds the tags of the outputs produced,
\* each once: in a --md run one tag per "## " section, in section order; in a
\* CSV run one tag per file written; a step that failed or found no row of
\* the ticker added neither.
C19_SavedFilesRecordsOutputs ==
    /\ \A i, j \in DOMAIN saved_files : saved_files[i] = saved_files[j] => i = j
    /\ md => /\ Len(SectionsSoFar) = Len(saved_files)
             /\ \A i \in DOMAIN saved_files :
                   SectionRank(SectionsSoFar[i]) = TagRank(saved_files[i])
    /\ ~md => /\ Len(csv_files) = Len(saved_files)
              /\ markdown_content = <<>>
              /\ \A i \in DOMAIN saved_files :
                    /\ StartsWith(csv_files[i].name, ticker \o "_" \o saved_files[i])
                    /\ Len(csv_files[i].lines) = Len(csv_files[i].df.rows) + 1
    /\ \A tag \in {"pl", "bs", "cf"} :
          (~loaded[tag] = NotLoaded /\ ~HasRows(tag)) =>
              /\ ~Saved(tag)
              /\ ~Output(tag, TitleOf(tag))

C19_Witness ==
    /\ Done /\ md
    /\ HasRows("pl") /\ ~Saved("pl")
    /\ loaded["bs"].raised
    /\ saved_files = <<"cf">>
    /\ Len(SectionsSoFar) = 1

Rectangular ==
    /\ Len(result.alignments) = Len(result.headers)
    /\ \A j \in DOMAIN result.rows : Len(result.rows[j]) = Len(result.headers)

\* every key but the one of the hidden fields alone gives a rectangular table
RectangularWithVisibleKey ==
    (RenderReturned /\ Range(call.df.names) # HiddenFields) => Rectangular

\* C20: the header line, the alignment line and every data row of a rendered
\* table hold the same number of cells, whatever the key of the source table.
C20_TableIsRectangular ==
    RenderReturned => Rectangular

====
